---- MODULE Spec2Model ----
(***************************************************************************)
(* Model of the feedback-collector HTTP service: the users/rooms/feedback  *)
(* tables, the process configuration (JWT secret), the wall clock, the     *)
(* tokens handed out to clients and the requests in flight.  Every handler *)
(* is translated from its Go source; a handler whose code issues several   *)
(* store queries takes one step per query so that concurrent requests      *)
(* interleave exactly where the database lets them.                        *)
(***************************************************************************)
EXTENDS Integers, Sequences, FiniteSets, TLC

VARIABLES
    users,        \* rows of table users
    userSeq,      \* last value drawn from the SERIAL sequence users_id_seq
    rooms,        \* rows of table rooms
    given,        \* the secret each room was created with (its creator's knowledge)
    feedback,     \* rows of table feedback
    feedbackSeq,  \* last value drawn from feedback_id_seq
    jwtSecret,    \* cfg.JWTSecret of the running process
    now,          \* wall clock, in whole seconds (jwt.TimePrecision)
    issued,       \* tokens that left the server in a response body
    reqs          \* request slots: the requests being served and their responses

vars == <<users, userSeq, rooms, given, feedback, feedbackSeq, jwtSecret, now, issued, reqs>>

(***************************************************************************)
(* Bounds of the model.                                                    *)
(***************************************************************************)
NReq == 2          \* concurrent request slots
MaxDrift == 1      \* seconds the clock may advance between two reads in one handler
MaxIssued == 1     \* tokens handed out before clients stop logging in
MaxRooms == 1      \* rooms created before clients stop creating rooms
MaxFeedback == 1   \* feedback rows stored before clients stop posting

Slots == 1..NReq

(***************************************************************************)
(* Strings are sequences of one-character strings, so that length, case    *)
(* and prefixes are what they are in Go.                                   *)
(***************************************************************************)
NUL == "\\0"

Repeat(c, n) == [j \in 1..n |-> c]

Long72 == Repeat("p", 72)
Long73 == Long72 \o <<"x">>
Secret1 == <<"s", "e", "c", "r", "e", "t", "1">>
Other6 == <<"o", "t", "h", "e", "r", "s">>
Wrong == <<"w", "r", "o", "n", "g">>
Abc123 == <<"a", "b", "c", "1", "2", "3">>
ABC123 == <<"A", "B", "C", "1", "2", "3">>
AbcTwice == Abc123 \o <<NUL>> \o Abc123
Empty == <<>>

EmailA == <<"a", "@", "x">>
EmailB == <<"b", "@", "x">>
EmailC == <<"c", "@", "x">>
EmailBad == <<"a", "x">>

(***************************************************************************)
(* binding:"required,email" and binding:"required,min=6" of the request    *)
(* structs, as gin's ShouldBindJSON applies them.                          *)
(***************************************************************************)
PasswordMin == 6

Positions(s, c) == {j \in 1..Len(s) : s[j] = c}

IsEmail(e) ==
    /\ Cardinality(Positions(e, "@")) = 1
    /\ \A j \in Positions(e, "@") : j > 1 /\ j < Len(e)

BindRegisterRequest(r) ==
    /\ r.email # Empty /\ IsEmail(r.email)
    /\ r.password # Empty /\ Len(r.password) >= PasswordMin

BindLoginRequest(r) ==
    /\ r.email # Empty /\ IsEmail(r.email)
    /\ r.password # Empty /\ Len(r.password) >= PasswordMin

(***************************************************************************)
(* bcrypt.  The Blowfish key schedule reads 72 bytes (18 words) from the   *)
(* NUL-terminated password, cycling over it; the digest is a function of   *)
(* cost, salt and those 72 bytes.  GenerateFromPassword refuses passwords  *)
(* longer than 72 bytes; CompareHashAndPassword recomputes the digest with *)
(* the salt stored in the hash and compares.                               *)
(***************************************************************************)
BcryptKeyBytes == 72
NSalts == 1
Salts == 1..NSalts

KeyStream(password) ==
    LET k == password \o <<NUL>>
    IN  [j \in 1..BcryptKeyBytes |-> k[((j - 1) % Len(k)) + 1]]

NoHash == [salt |-> 0, digest |-> <<>>]

GenerateFromPassword(password, salt) ==
    IF Len(password) > BcryptKeyBytes
    THEN [hash |-> NoHash, err |-> TRUE]
    ELSE [hash |-> [salt |-> salt, digest |-> KeyStream(password)], err |-> FALSE]

\* TRUE when the library returns nil (match); the empty string is no bcrypt hash
CompareHashAndPassword(hash, password) ==
    /\ hash # NoHash
    /\ hash.digest = KeyStream(password)

(***************************************************************************)
(* Go error values.  errors.New allocates a new value on every call, and   *)
(* errors.Is compares an errorString with its target by identity: the site *)
(* of the allocation stands for the identity.                              *)
(***************************************************************************)
Nil == [msg |-> "", site |-> "nil"]

ErrorsNew(msg, site) == [msg |-> msg, site |-> site]

ErrorsIs(err, target) == err = target

(***************************************************************************)
(* Store queries.                                                          *)
(***************************************************************************)
NoUser == [id |-> 0, email |-> Empty, password_hash |-> NoHash, subscription_type |-> ""]

GetUserByEmail(email) ==
    IF \E u \in users : u.email = email
    THEN [user |-> CHOOSE u \in users : u.email = email, err |-> Nil]
    ELSE [user |-> NoUser, err |-> ErrorsNew("user not found", "db.go:157")]

\* SELECT id, email, subscription_type, created_at: the hash is not read
GetUserByID(id) ==
    IF \E u \in users : u.id = id
    THEN [user |-> [(CHOOSE u \in users : u.id = id) EXCEPT !.password_hash = NoHash],
          err |-> Nil]
    ELSE [user |-> NoUser, err |-> ErrorsNew("user not found", "db.go:182")]

\* the INSERT of CreateUser: UNIQUE(email) refuses a second row for an email
InsertUserOK(email) == \A u \in users : u.email # email

\* json:"-" on PasswordHash: the serialised user has no such field
UserJSON(u) == [id |-> u.id, email |-> u.email, subscription_type |-> u.subscription_type]

(***************************************************************************)
(* JWT.  A token is header.payload.signature; the signature is the MAC of  *)
(* header and payload under a key, kept symbolically.                      *)
(***************************************************************************)
Day == 86400

DefaultSecret == "super_secret_key_change_this_in_production"

HMACAlgs == {"HS256", "HS384", "HS512"}
KnownAlgs == HMACAlgs \cup {"RS256", "none"}

Sign(alg, key, claims) == [alg |-> alg, key |-> key, claims |-> claims]

\* a GenerateToken whose not-before lies a second after the moment of issue
GenerateToken_NbfAhead(userID, t1, t2, t3, key) ==
    LET claims == [user_id |-> userID, exp |-> t1 + Day, iat |-> t2, nbf |-> t3 + 1,
                   iss |-> "feedback-collector"]
    IN  [alg |-> "HS256", claims |-> claims, sig |-> Sign("HS256", key, claims)]

\* the three time.Now() reads t1 <= t2 <= t3 of GenerateToken
GenerateToken(userID, t1, t2, t3, key) ==
    LET claims == [user_id |-> userID, exp |-> t1 + Day, iat |-> t2, nbf |-> t3,
                   iss |-> "feedback-collector"]
    IN  [alg |-> "HS256", claims |-> claims, sig |-> Sign("HS256", key, claims)]

\* token.Method.(*jwt.SigningMethodHMAC) of the key function
IsSigningMethodHMAC(alg) == alg \in HMACAlgs

(***************************************************************************)
(* jwt.ParseWithClaims with the key function of AuthMiddleware, at clock   *)
(* reading t: the parser looks the header's alg up among the registered    *)
(* methods, asks the key function for the key, verifies the signature over *)
(* header and payload with the header's method, then validates exp         *)
(* (t < exp) and nbf (t >= nbf); iat is not validated by default.          *)
(***************************************************************************)
\* a parser that validates the claims of a token without verifying its signature
ParseWithClaims_Unverified(tok, key, t) ==
    IF tok.alg \notin KnownAlgs THEN "Malformed"
    ELSE IF ~IsSigningMethodHMAC(tok.alg) THEN "UnexpectedMethod"
    ELSE IF ~(t < tok.claims.exp) THEN "Expired"
    ELSE IF ~(t >= tok.claims.nbf) THEN "NotValidYet"
    ELSE "ok"

ParseWithClaims(tok, key, t) ==
    IF tok.alg \notin KnownAlgs THEN "Malformed"
    ELSE IF ~IsSigningMethodHMAC(tok.alg) THEN "UnexpectedMethod"
    ELSE IF tok.sig # Sign(tok.alg, key, tok.claims) THEN "BadSignature"
    ELSE IF ~(t < tok.claims.exp) THEN "Expired"
    ELSE IF ~(t >= tok.claims.nbf) THEN "NotValidYet"
    ELSE "ok"

(***************************************************************************)
(* The Authorization header is a sequence of words, single spaces and      *)
(* compact tokens; strings.Split cuts it at every space.                   *)
(***************************************************************************)
NoClaims == [user_id |-> 0, exp |-> 0, iat |-> 0, nbf |-> 0, iss |-> ""]
NoSig == Sign("", "", NoClaims)
NoTok == [alg |-> "", claims |-> NoClaims, sig |-> NoSig]

Word(w) == [w |-> w, t |-> NoTok]
SP == Word(" ")
Jwt(tok) == [w |-> "jwt", t |-> tok]

Bearer(tok) == <<Word("Bearer"), SP, Jwt(tok)>>

RECURSIVE Split(_)
Split(s) ==
    IF \A j \in 1..Len(s) : s[j] # SP
    THEN <<s>>
    ELSE LET j == CHOOSE k \in 1..Len(s) : s[k] = SP /\ \A m \in 1..(k - 1) : s[m] # SP
         IN  <<SubSeq(s, 1, j - 1)>> \o Split(SubSeq(s, j + 1, Len(s)))

(***************************************************************************)
(* Requests.                                                               *)
(***************************************************************************)
NoView == [kind |-> "none"]

Idle ==
    [route |-> "none", hdr |-> <<>>, email |-> Empty, password |-> Empty,
     roomID |-> "", name |-> "", content |-> "", json |-> TRUE,
     pc |-> "idle", auth |-> "Unchecked", ctx |-> <<>>, ran |-> FALSE,
     status |-> 0, error |-> "", token |-> <<>>, view |-> NoView,
     reason |-> "", at |-> 0, fresh |-> FALSE, alone |-> FALSE, peer |-> 0]

Free(i) == reqs[i].pc = "idle"

InFlight(i) == reqs[i].pc \notin {"idle", "done"}

(***************************************************************************)
(* The server accepts request r into slot i.  Three fields of a request    *)
(* record what the server does not know but the properties speak about:    *)
(* fresh (no account held the email when the request arrived), alone (no   *)
(* other request was in flight during its lifetime) and peer (the slot of  *)
(* a request for the same email that was in flight together with it).      *)
(***************************************************************************)
SameRegistration(r, q) ==
    r.route = "register" /\ q.route = "register" /\ r.email = q.email

Peers(i, r) == {j \in Slots \ {i} : InFlight(j) /\ SameRegistration(r, reqs[j])}

Admit(i, r) ==
    [j \in Slots |->
        IF j = i
        THEN [r EXCEPT !.fresh = (\A u \in users : u.email # r.email),
                       !.alone = (\A k \in Slots \ {i} : ~InFlight(k)),
                       !.peer = IF Peers(i, r) = {} THEN 0
                                ELSE CHOOSE k \in Peers(i, r) : TRUE]
        ELSE [reqs[j] EXCEPT !.alone = @ /\ ~InFlight(j),
                             !.peer = IF j \in Peers(i, r) /\ @ = 0 THEN i
                                      ELSE IF @ = i /\ j \notin Peers(i, r) THEN 0
                                      ELSE @]]

\* c.JSON / c.AbortWithStatusJSON: the response of the request
Respond(r, status, error, token, view) ==
    [r EXCEPT !.pc = "done", !.status = status, !.error = error,
              !.token = token, !.view = view]

\* the instants the clock is sampled at: around a start and a day after it
TimePoints == (0..MaxDrift) \cup {Day - 1 + k : k \in 0..(MaxDrift + 1)}

\* instants the clock can show within MaxSkew seconds after t
Reads(t) == {u \in TimePoints : u >= t /\ u <= t + MaxDrift}

(***************************************************************************)
(* SetupRouter: the middleware chain in front of each route's handler.     *)
(***************************************************************************)
Routes ==
    {"register", "login", "me", "createRoom", "getRooms", "getRoom",
     "publicGetRoom", "join", "createFeedback", "getFeedback"}

\* a router that registers the feedback listing outside the protected group
Chain_FeedbackUnprotected(route) ==
    IF route \in {"me", "createRoom", "getRooms", "getRoom"}
    THEN <<"AuthMiddleware">>
    ELSE <<>>

\* a router that puts the join route behind AuthMiddleware
Chain_JoinProtected(route) ==
    IF route \in {"me", "createRoom", "getRooms", "getRoom", "getFeedback", "join"}
    THEN <<"AuthMiddleware">>
    ELSE <<>>

Chain(route) ==
    IF route \in {"me", "createRoom", "getRooms", "getRoom", "getFeedback"}
    THEN <<"AuthMiddleware">>
    ELSE <<>>

\* gin runs the chain, then the handler
Dispatch(r) == [r EXCEPT !.pc = IF Chain(r.route) = <<>> THEN "handler" ELSE "middleware"]

(***************************************************************************)
(* AuthMiddleware                                                          *)
(***************************************************************************)
Abort(r, error, reason) ==
    [Respond(r, 401, error, <<>>, NoView) EXCEPT !.auth = "Rejected", !.reason = reason]

\* a middleware that looks for the scheme only and takes the last part as the token
AuthMiddlewareResult_SchemeOnly(r, key, t) ==
    IF r.hdr = <<>>
    THEN Abort(r, "Authorization header is required", "MissingCredential")
    ELSE LET parts == Split(r.hdr)
             last == parts[Len(parts)]
         IN  IF parts[1] # <<Word("Bearer")>>
             THEN Abort(r, "Authorization header format must be Bearer {token}",
                        "MalformedCredential")
             ELSE IF Len(last) # 1 \/ last[1].w # "jwt"
             THEN Abort(r, "Invalid or expired token", "Malformed")
             ELSE LET tok == last[1].t
                      res == ParseWithClaims(tok, key, t)
                  IN  IF res # "ok"
                      THEN Abort(r, "Invalid or expired token", res)
                      ELSE [r EXCEPT !.auth = "Authenticated",
                                     !.ctx = <<tok.claims.user_id>>,
                                     !.pc = "handler"]

AuthMiddlewareResult(r, key, t) ==
    IF r.hdr = <<>>
    THEN Abort(r, "Authorization header is required", "MissingCredential")
    ELSE LET parts == Split(r.hdr)
         IN  IF Len(parts) # 2 \/ parts[1] # <<Word("Bearer")>>
             THEN Abort(r, "Authorization header format must be Bearer {token}",
                        "MalformedCredential")
             ELSE IF Len(parts[2]) # 1 \/ parts[2][1].w # "jwt"
             THEN Abort(r, "Invalid or expired token", "Malformed")
             ELSE LET tok == parts[2][1].t
                      res == ParseWithClaims(tok, key, t)
                  IN  IF res # "ok"
                      THEN Abort(r, "Invalid or expired token", res)
                      ELSE [r EXCEPT !.auth = "Authenticated",
                                     !.ctx = <<tok.claims.user_id>>,
                                     !.pc = "handler"]

AuthMiddleware(i) ==
    /\ reqs[i].pc = "middleware"
    /\ Chain(reqs[i].route) = <<"AuthMiddleware">>
    /\ reqs' = [reqs EXCEPT ![i] =
                   AuthMiddlewareResult([reqs[i] EXCEPT !.at = now], jwtSecret, now)]
    /\ UNCHANGED <<users, userSeq, rooms, given, feedback, feedbackSeq, jwtSecret, now, issued>>

\* GetUserID: the value AuthMiddleware stored under "userID", if any
GetUserID(r) ==
    IF r.ctx = <<>> THEN [id |-> 0, err |-> TRUE] ELSE [id |-> r.ctx[1], err |-> FALSE]

(***************************************************************************)
(* POST /api/auth/login                                                    *)
(***************************************************************************)
\* a Login that answers with the row as it was read, the hash included
LoginResult_RawRow(r, t1, t2, t3, key) ==
    IF ~BindLoginRequest(r)
    THEN Respond(r, 400, "binding", <<>>, NoView)
    ELSE LET res == GetUserByEmail(r.email)
         IN  IF res.err # Nil
             THEN Respond(r, 401, "Invalid email or password", <<>>, NoView)
             ELSE IF ~CompareHashAndPassword(res.user.password_hash, r.password)
             THEN Respond(r, 401, "Invalid email or password", <<>>, NoView)
             ELSE Respond(r, 200, "", <<GenerateToken(res.user.id, t1, t2, t3, key)>>,
                          [kind |-> "user", user |-> res.user])

LoginResult(r, t1, t2, t3, key) ==
    IF ~BindLoginRequest(r)
    THEN Respond(r, 400, "binding", <<>>, NoView)
    ELSE LET res == GetUserByEmail(r.email)
         IN  IF res.err # Nil
             THEN Respond(r, 401, "Invalid email or password", <<>>, NoView)
             ELSE IF ~CompareHashAndPassword(res.user.password_hash, r.password)
             THEN Respond(r, 401, "Invalid email or password", <<>>, NoView)
             ELSE Respond(r, 200, "", <<GenerateToken(res.user.id, t1, t2, t3, key)>>,
                          [kind |-> "user",
                           user |-> UserJSON([res.user EXCEPT !.password_hash = NoHash])])

Login(i) ==
    /\ reqs[i].route = "login"
    /\ reqs[i].pc = "handler"
    /\ \E t2 \in Reads(now) :
       \E t3 \in Reads(t2) :
          LET r == LoginResult([reqs[i] EXCEPT !.ran = TRUE], now, t2, t3, jwtSecret)
          IN  /\ reqs' = [reqs EXCEPT ![i] = r]
              /\ issued' = issued \cup {r.token[j] : j \in 1..Len(r.token)}
              /\ now' = IF r.status = 200 THEN t3 ELSE now
    /\ UNCHANGED <<users, userSeq, rooms, given, feedback, feedbackSeq, jwtSecret>>

(***************************************************************************)
(* GET /api/auth/me                                                        *)
(***************************************************************************)
GetCurrentUserResult(r) ==
    LET uid == GetUserID(r)
    IN  IF uid.err
        THEN Respond(r, 401, "Not authenticated", <<>>, NoView)
        ELSE LET res == GetUserByID(uid.id)
             IN  IF res.err # Nil
                 THEN Respond(r, 404, "User not found", <<>>, NoView)
                 ELSE Respond(r, 200, "", <<>>, [kind |-> "user", user |-> UserJSON(res.user)])

GetCurrentUser(i) ==
    /\ reqs[i].route = "me"
    /\ reqs[i].pc = "handler"
    /\ reqs' = [reqs EXCEPT ![i] = GetCurrentUserResult([reqs[i] EXCEPT !.ran = TRUE])]
    /\ UNCHANGED <<users, userSeq, rooms, given, feedback, feedbackSeq, jwtSecret, now, issued>>

(***************************************************************************)
(* Rooms.  A row keeps the bcrypt hash of the room's secret in column      *)
(* password, or the empty string (NoHash) when the room has none.          *)
(***************************************************************************)
NoRoom == [id |-> "", name |-> "", password |-> NoHash, creator_id |-> 0,
           is_password_protected |-> FALSE]

\* json:"-" on Password: the serialised room has no such field
RoomJSON(room) ==
    [id |-> room.id, name |-> room.name, creator_id |-> room.creator_id,
     is_password_protected |-> room.is_password_protected]

GetRoomByIDQuery(id) ==
    IF \E room \in rooms : room.id = id
    THEN [room |-> CHOOSE room \in rooms : room.id = id, err |-> Nil]
    ELSE [room |-> NoRoom, err |-> ErrorsNew("room not found", "db.go:237")]

\* Database.CreateRoom: the row it inserts, and whether the INSERT is
\* accepted (PRIMARY KEY(id), creator_id REFERENCES users(id))
NewRoom_AlwaysProtected(roomID, name, creatorID, password) ==
    [id |-> roomID, name |-> name, password |-> password, creator_id |-> creatorID,
     is_password_protected |-> TRUE]

NewRoom(roomID, name, creatorID, password) ==
    [id |-> roomID, name |-> name, password |-> password, creator_id |-> creatorID,
     is_password_protected |-> (password # NoHash)]

InsertRoomOK(room) ==
    /\ \A q \in rooms : q.id # room.id
    /\ \E u \in users : u.id = room.creator_id

BindCreateRoomRequest(r) == r.name # ""

(***************************************************************************)
(* POST /api/rooms                                                         *)
(***************************************************************************)
CreateRoomResult(r, roomID, salt) ==
    IF ~BindCreateRoomRequest(r)
    THEN Respond(r, 400, "binding", <<>>, NoView)
    ELSE LET uid == GetUserID(r)
             h == IF r.password # Empty
                  THEN GenerateFromPassword(r.password, salt)
                  ELSE [hash |-> NoHash, err |-> FALSE]
             room == NewRoom(roomID, r.name, uid.id, h.hash)
         IN  IF uid.err
             THEN Respond(r, 401, "Not authenticated", <<>>, NoView)
             ELSE IF h.err
             THEN Respond(r, 500, "Failed to process password", <<>>, NoView)
             ELSE IF ~InsertRoomOK(room)
             THEN Respond(r, 500, "Failed to create room", <<>>, NoView)
             \* RETURNING id, name, creator_id, is_password_protected, created_at:
             \* the struct Database.CreateRoom returns has no password
             ELSE Respond(r, 201, "", <<>>,
                          [kind |-> "room",
                           room |-> RoomJSON([room EXCEPT !.password = NoHash])])

RoomIDs == {"r1", "r2"}

CreateRoom(i) ==
    /\ reqs[i].route = "createRoom"
    /\ reqs[i].pc = "handler"
    /\ \E roomID \in RoomIDs, salt \in Salts :
          LET r == [reqs[i] EXCEPT !.ran = TRUE]
              res == CreateRoomResult(r, roomID, salt)
          IN  /\ reqs' = [reqs EXCEPT ![i] = res]
              /\ rooms' = IF res.status = 201
                          THEN rooms \cup {NewRoom(roomID, r.name, GetUserID(r).id,
                                    IF r.password # Empty
                                    THEN GenerateFromPassword(r.password, salt).hash
                                    ELSE NoHash)}
                          ELSE rooms
              /\ given' = IF res.status = 201
                          THEN given \cup {[id |-> roomID, secret |-> r.password]}
                          ELSE given
    /\ UNCHANGED <<users, userSeq, feedback, feedbackSeq, jwtSecret, now, issued>>

(***************************************************************************)
(* GET /api/rooms                                                          *)
(***************************************************************************)
GetRoomsResult(r) ==
    LET uid == GetUserID(r)
    IN  IF uid.err
        THEN Respond(r, 401, "Not authenticated", <<>>, NoView)
        ELSE Respond(r, 200, "", <<>>,
                     [kind |-> "rooms",
                      \* GetRoomsByUserID does not select the password column
                      rooms |-> {RoomJSON([room EXCEPT !.password = NoHash]) :
                                    room \in {q \in rooms : q.creator_id = uid.id}}])

GetRooms(i) ==
    /\ reqs[i].route = "getRooms"
    /\ reqs[i].pc = "handler"
    /\ reqs' = [reqs EXCEPT ![i] = GetRoomsResult([reqs[i] EXCEPT !.ran = TRUE])]
    /\ UNCHANGED <<users, userSeq, rooms, given, feedback, feedbackSeq, jwtSecret, now, issued>>

(***************************************************************************)
(* GET /api/rooms/:id and GET /api/public/rooms/:id                        *)
(***************************************************************************)
GetRoomByIDResult(r) ==
    LET res == GetRoomByIDQuery(r.roomID)
    IN  IF res.err # Nil
        THEN Respond(r, 404, "Room not found", <<>>, NoView)
        ELSE Respond(r, 200, "", <<>>,
                     [kind |-> "room", room |-> RoomJSON([res.room EXCEPT !.password = NoHash])])

GetRoomByID(i) ==
    /\ reqs[i].route \in {"getRoom", "publicGetRoom"}
    /\ reqs[i].pc = "handler"
    /\ reqs' = [reqs EXCEPT ![i] = GetRoomByIDResult([reqs[i] EXCEPT !.ran = TRUE])]
    /\ UNCHANGED <<users, userSeq, rooms, given, feedback, feedbackSeq, jwtSecret, now, issued>>

(***************************************************************************)
(* POST /api/public/rooms/:id/join                                         *)
(***************************************************************************)
\* JoinRoomRequest has no required field: binding fails only on a body that
\* is not JSON
BindJoinRoomRequest(r) == r.json

JoinRoomResult(r) ==
    IF ~BindJoinRoomRequest(r)
    THEN Respond(r, 400, "binding", <<>>, NoView)
    ELSE LET res == GetRoomByIDQuery(r.roomID)
         IN  IF res.err # Nil
             THEN Respond(r, 404, "Room not found", <<>>, NoView)
             ELSE IF /\ res.room.is_password_protected
                     /\ ~CompareHashAndPassword(res.room.password, r.password)
             THEN Respond(r, 401, "Invalid room password", <<>>, NoView)
             ELSE Respond(r, 200, "", <<>>,
                          [kind |-> "room",
                           room |-> RoomJSON([res.room EXCEPT !.password = NoHash])])

JoinRoom(i) ==
    /\ reqs[i].route = "join"
    /\ reqs[i].pc = "handler"
    /\ reqs' = [reqs EXCEPT ![i] = JoinRoomResult([reqs[i] EXCEPT !.ran = TRUE])]
    /\ UNCHANGED <<users, userSeq, rooms, given, feedback, feedbackSeq, jwtSecret, now, issued>>

(***************************************************************************)
(* POST /api/public/rooms/:id/feedback and GET /api/rooms/:id/feedback     *)
(***************************************************************************)
BindCreateFeedbackRequest(r) == r.content # ""

\* Database.CreateFeedback: sentiment is left to the column default
NewFeedback(id, roomID, content) == [id |-> id, room_id |-> roomID, content |-> content]

\* a handler that takes feedback for rooms without a secret only
CreateFeedbackResult_OpenRoomsOnly(r) ==
    IF ~BindCreateFeedbackRequest(r)
    THEN Respond(r, 400, "binding", <<>>, NoView)
    ELSE LET res == GetRoomByIDQuery(r.roomID)
         IN  IF res.err # Nil
             THEN Respond(r, 404, "Room not found", <<>>, NoView)
             ELSE IF res.room.is_password_protected
             THEN Respond(r, 401, "Invalid room password", <<>>, NoView)
             ELSE Respond(r, 201, "", <<>>,
                          [kind |-> "feedback",
                           items |-> {NewFeedback(feedbackSeq + 1, res.room.id, r.content)}])

CreateFeedbackResult(r) ==
    IF ~BindCreateFeedbackRequest(r)
    THEN Respond(r, 400, "binding", <<>>, NoView)
    ELSE LET res == GetRoomByIDQuery(r.roomID)
         IN  IF res.err # Nil
             THEN Respond(r, 404, "Room not found", <<>>, NoView)
             ELSE Respond(r, 201, "", <<>>,
                          [kind |-> "feedback",
                           items |-> {NewFeedback(feedbackSeq + 1, res.room.id, r.content)}])

CreateFeedback(i) ==
    /\ reqs[i].route = "createFeedback"
    /\ reqs[i].pc = "handler"
    /\ LET res == CreateFeedbackResult([reqs[i] EXCEPT !.ran = TRUE])
       IN  /\ reqs' = [reqs EXCEPT ![i] = res]
           /\ feedback' = IF res.status = 201 THEN feedback \cup res.view.items ELSE feedback
           /\ feedbackSeq' = IF res.status = 201 THEN feedbackSeq + 1 ELSE feedbackSeq
    /\ UNCHANGED <<users, userSeq, rooms, given, jwtSecret, now, issued>>

GetFeedbackResult(r) ==
    LET res == GetRoomByIDQuery(r.roomID)
    IN  IF res.err # Nil
        THEN Respond(r, 404, "Room not found", <<>>, NoView)
        ELSE Respond(r, 200, "", <<>>,
                     [kind |-> "feedback",
                      items |-> {f \in feedback : f.room_id = r.roomID}])

GetFeedback(i) ==
    /\ reqs[i].route = "getFeedback"
    /\ reqs[i].pc = "handler"
    /\ reqs' = [reqs EXCEPT ![i] = GetFeedbackResult([reqs[i] EXCEPT !.ran = TRUE])]
    /\ UNCHANGED <<users, userSeq, rooms, given, feedback, feedbackSeq, jwtSecret, now, issued>>

\* the response is written and the connection is free for the next request
Close(i) ==
    /\ reqs[i].pc = "done"
    /\ reqs' = [reqs EXCEPT ![i] = Idle]
    /\ UNCHANGED <<users, userSeq, rooms, given, feedback, feedbackSeq, jwtSecret, now, issued>>

(***************************************************************************)
(* The clock, and config.Load at a restart of the process: the requests in *)
(* flight are lost, the store and the tokens clients hold are not.         *)
(***************************************************************************)
Tick ==
    /\ \E t \in TimePoints : t > now /\ now' = t
    /\ UNCHANGED <<users, userSeq, rooms, given, feedback, feedbackSeq, jwtSecret, issued, reqs>>

getEnv(value, defaultValue) == IF value = "" THEN defaultValue ELSE value

EnvSecrets == {"", "k2"}

Load ==
    /\ \E env \in EnvSecrets : jwtSecret' = getEnv(env, DefaultSecret)
    /\ reqs' = [i \in Slots |-> Idle]
    /\ UNCHANGED <<users, userSeq, rooms, given, feedback, feedbackSeq, now, issued>>

(***************************************************************************)
(* POST /api/auth/register                                                 *)
(***************************************************************************)
Register(i) ==
    /\ reqs[i].route = "register"
    /\ reqs[i].pc \in {"handler", "create"}
    /\ LET r == [reqs[i] EXCEPT !.ran = TRUE]
       IN
       IF r.pc = "handler"
       THEN
          /\ UNCHANGED <<users, userSeq, rooms, given, feedback, feedbackSeq, jwtSecret, now, issued>>
          /\ IF ~BindRegisterRequest(r)
             THEN reqs' = [reqs EXCEPT ![i] = Respond(r, 400, "binding", <<>>, NoView)]
             ELSE LET res == GetUserByEmail(r.email)
                  IN  IF res.err = Nil
                      THEN reqs' = [reqs EXCEPT ![i] =
                                 Respond(r, 409, "Email already registered", <<>>, NoView)]
                      ELSE IF ~ErrorsIs(res.err, ErrorsNew("user not found", "auth.go:44"))
                      THEN reqs' = [reqs EXCEPT ![i] =
                                 Respond(r, 500, "Failed to check user existence", <<>>, NoView)]
                      ELSE reqs' = [reqs EXCEPT ![i] = [r EXCEPT !.pc = "create"]]
       ELSE
          \E salt \in Salts, t2 \in Reads(now) :
          \E t3 \in Reads(t2) :
             LET h == GenerateFromPassword(r.password, salt)
                 user == [id |-> userSeq + 1, email |-> r.email,
                          password_hash |-> NoHash, subscription_type |-> "free"]
                 tok == GenerateToken(user.id, now, t2, t3, jwtSecret)
             IN
             /\ UNCHANGED <<rooms, given, feedback, feedbackSeq, jwtSecret>>
             /\ IF h.err
                THEN /\ reqs' = [reqs EXCEPT ![i] =
                                Respond(r, 500, "Failed to create user", <<>>, NoView)]
                     /\ UNCHANGED <<users, userSeq, now, issued>>
                ELSE IF ~InsertUserOK(r.email)
                THEN /\ reqs' = [reqs EXCEPT ![i] =
                                Respond(r, 500, "Failed to create user", <<>>, NoView)]
                     /\ userSeq' = userSeq + 1
                     /\ UNCHANGED <<users, now, issued>>
                ELSE /\ users' = users \cup {[user EXCEPT !.password_hash = h.hash]}
                     /\ userSeq' = userSeq + 1
                     /\ now' = t3
                     /\ issued' = issued \cup {tok}
                     /\ reqs' = [reqs EXCEPT ![i] =
                                Respond(r, 201, "", <<tok>>, [kind |-> "user", user |-> UserJSON(user)])]

(***************************************************************************)
(* The accounts the store may hold when the process starts: the tables are *)
(* created IF NOT EXISTS and outlive the process.                          *)
(***************************************************************************)
SeedUsers ==
    {[id |-> 1, email |-> EmailA,
      password_hash |-> GenerateFromPassword(Secret1, 1).hash,
      subscription_type |-> "free"],
     [id |-> 2, email |-> EmailB,
      password_hash |-> GenerateFromPassword(Other6, 1).hash,
      subscription_type |-> "free"]}

\* the password each of these accounts was registered with
PasswordAtRegistration(u) == IF u.email = EmailA THEN Secret1 ELSE Other6

InitStore(us) ==
    /\ users = us
    /\ userSeq = Cardinality(us)
    /\ rooms = {}
    /\ given = {}
    /\ feedback = {}
    /\ feedbackSeq = 0

InitProcess ==
    /\ \E env \in EnvSecrets : jwtSecret = getEnv(env, DefaultSecret)
    /\ now \in TimePoints
    /\ issued = {}
    /\ reqs = [i \in Slots |-> Idle]

(***************************************************************************)
(* Registration: concurrent POST /api/auth/register requests.              *)
(***************************************************************************)
RegisterEmails == {EmailA, EmailB, EmailBad}
RegisterPasswords == {Secret1, Wrong}

ArriveRegister(i) ==
    /\ Free(i)
    /\ \E e \in RegisterEmails, p \in RegisterPasswords :
          reqs' = Admit(i, Dispatch([Idle EXCEPT !.route = "register", !.email = e,
                                                 !.password = p]))
    /\ UNCHANGED <<users, userSeq, rooms, given, feedback, feedbackSeq, jwtSecret, now, issued>>

InitRegister ==
    /\ InitProcess
    /\ now = 0
    /\ \E us \in {{}, {u \in SeedUsers : u.id = 1}} : InitStore(us)

NextRegister == \E i \in Slots : ArriveRegister(i) \/ Register(i) \/ Close(i)

SpecRegister == InitRegister /\ [][NextRegister]_vars

(***************************************************************************)
(* Sessions: login, GET /api/auth/me behind AuthMiddleware, the clock and  *)
(* restarts.  A client presents any header it can build: a token it was    *)
(* given, such a token with a field changed, or a token it signs itself    *)
(* with a key it knows.                                                    *)
(***************************************************************************)
UserIDs == {1, 2, 3}
AllAlgs == KnownAlgs \cup {"", "XX"}
KnownKeys == {getEnv(env, DefaultSecret) : env \in EnvSecrets}

Resign(claims, alg, key) == [alg |-> alg, claims |-> claims, sig |-> Sign(alg, key, claims)]

Tampered(tok) ==
    {[tok EXCEPT !.alg = a] : a \in AllAlgs \ {tok.alg}}
        \cup {[tok EXCEPT !.claims.user_id = u] : u \in UserIDs \ {tok.claims.user_id}}
        \cup {[tok EXCEPT !.claims.exp = @ + Day]}
        \cup {[tok EXCEPT !.sig = Sign(tok.alg, "xx", tok.claims)]}

OwnClaims ==
    {[user_id |-> u, exp |-> now + Day, iat |-> now, nbf |-> t, iss |-> "feedback-collector"] :
        u \in {3}, t \in {now, now + 1}}

Forged ==
    {Resign(c, "HS256", k) : c \in OwnClaims, k \in KnownKeys}
        \cup {Resign(t.claims, a, k) : t \in issued, a \in HMACAlgs \cup {"none"},
                                       k \in KnownKeys}

Presentable == issued \cup UNION {Tampered(t) : t \in issued} \cup Forged

\* header values of another shape than "Bearer <token>", built around a token
Misshapen(t) ==
    {<<Word("Bearer")>>,
     <<Jwt(t)>>,
     <<Word("bearer"), SP, Jwt(t)>>,
     <<Word("Basic"), SP, Jwt(t)>>,
     <<Word("Bearer"), SP, SP, Jwt(t)>>,
     <<Word("Bearer"), SP, Jwt(t), SP, Word("x")>>}

Headers == {<<>>} \cup {Bearer(t) : t \in Presentable}
               \cup UNION {Misshapen(t) : t \in issued}

TokenSlots == {1}

LoginEmails == {EmailA, EmailC}
LoginPasswords == {Secret1, Other6, Wrong}

\* clients log in during the first sampled window, MaxIssued times at most
ArriveLogin(i) ==
    /\ Free(i)
    /\ Cardinality(issued) < MaxIssued
    /\ now <= MaxDrift
    /\ \E e \in LoginEmails, p \in LoginPasswords :
          reqs' = Admit(i, Dispatch([Idle EXCEPT !.route = "login", !.email = e,
                                                 !.password = p]))
    /\ UNCHANGED <<users, userSeq, rooms, given, feedback, feedbackSeq, jwtSecret, now, issued>>

ArriveMe(i) ==
    /\ Free(i)
    /\ \E h \in Headers :
          reqs' = Admit(i, Dispatch([Idle EXCEPT !.route = "me", !.hdr = h]))
    /\ UNCHANGED <<users, userSeq, rooms, given, feedback, feedbackSeq, jwtSecret, now, issued>>

InitToken == InitProcess /\ now = 0 /\ InitStore(SeedUsers)

NextToken ==
    \/ Tick
    \/ Load
    \/ \E i \in TokenSlots :
          \/ ArriveLogin(i)
          \/ Login(i)
          \/ ArriveMe(i)
          \/ AuthMiddleware(i)
          \/ GetCurrentUser(i)
          \/ Close(i)

SpecToken == InitToken /\ [][NextToken]_vars

(***************************************************************************)
(* Rooms and feedback: every route of the router, one request at a time.   *)
(***************************************************************************)
InvalidToken ==
    Resign([user_id |-> 1, exp |-> 3 * Day, iat |-> 0, nbf |-> 0, iss |-> "feedback-collector"],
           "HS256", "xx")

RoomHeaders == {<<>>, Bearer(InvalidToken)} \cup {Bearer(t) : t \in issued}

RoomSecrets == {Empty, Abc123, Long72, Long73}
Candidates == {Empty, Abc123, ABC123, AbcTwice, Long72, Long73}

RoomSlots == {1}

ArriveRoomLogin(i) ==
    /\ Free(i)
    /\ \E u \in users :
          reqs' = Admit(i, Dispatch([Idle EXCEPT !.route = "login", !.email = u.email,
                                                 !.password = PasswordAtRegistration(u)]))
    /\ UNCHANGED <<users, userSeq, rooms, given, feedback, feedbackSeq, jwtSecret, now, issued>>

ArriveCreateRoom(i) ==
    /\ Free(i)
    /\ Cardinality(rooms) < MaxRooms
    /\ \E h \in RoomHeaders, p \in RoomSecrets, n \in {"", "n"} :
          /\ n = "" => p = Empty
          /\ reqs' = Admit(i, Dispatch([Idle EXCEPT !.route = "createRoom", !.hdr = h,
                                                    !.name = n, !.password = p]))
    /\ UNCHANGED <<users, userSeq, rooms, given, feedback, feedbackSeq, jwtSecret, now, issued>>

ArriveRead(i) ==
    /\ Free(i)
    /\ \E h \in RoomHeaders, route \in {"me", "getRooms", "getRoom", "publicGetRoom", "getFeedback"},
          id \in RoomIDs :
          /\ route \in {"me", "getRooms"} => id = "r1"
          /\ route = "publicGetRoom" => h = <<>>
          /\ reqs' = Admit(i, Dispatch([Idle EXCEPT !.route = route, !.hdr = h,
                  !.roomID = IF route \in {"me", "getRooms"} THEN "" ELSE id]))
    /\ UNCHANGED <<users, userSeq, rooms, given, feedback, feedbackSeq, jwtSecret, now, issued>>

ArriveJoin(i) ==
    /\ Free(i)
    /\ \E h \in RoomHeaders, id \in RoomIDs, p \in Candidates, j \in BOOLEAN :
          /\ ~j => p = Empty /\ h = <<>>
          /\ reqs' = Admit(i, Dispatch([Idle EXCEPT !.route = "join", !.hdr = h,
                                                    !.roomID = id, !.password = p,
                                                    !.json = j]))
    /\ UNCHANGED <<users, userSeq, rooms, given, feedback, feedbackSeq, jwtSecret, now, issued>>

ArriveCreateFeedback(i) ==
    /\ Free(i)
    /\ Cardinality(feedback) < MaxFeedback
    /\ \E id \in RoomIDs, c \in {"", "c"} :
          reqs' = Admit(i, Dispatch([Idle EXCEPT !.route = "createFeedback",
                                                 !.roomID = id, !.content = c]))
    /\ UNCHANGED <<users, userSeq, rooms, given, feedback, feedbackSeq, jwtSecret, now, issued>>

\* the process runs with the default secret, at the last sampled instant
InitRoom ==
    /\ InitProcess
    /\ jwtSecret = DefaultSecret
    /\ \A t \in TimePoints : t <= now
    /\ InitStore(SeedUsers)

NextRoom ==
    \E i \in RoomSlots :
        \/ ArriveRegister(i)
        \/ Register(i)
        \/ ArriveRoomLogin(i)
        \/ Login(i)
        \/ ArriveCreateRoom(i)
        \/ ArriveRead(i)
        \/ ArriveJoin(i)
        \/ ArriveCreateFeedback(i)
        \/ AuthMiddleware(i)
        \/ GetCurrentUser(i)
        \/ CreateRoom(i)
        \/ GetRooms(i)
        \/ GetRoomByID(i)
        \/ JoinRoom(i)
        \/ CreateFeedback(i)
        \/ GetFeedback(i)
        \/ Close(i)

SpecRoom == InitRoom /\ [][NextRoom]_vars

\* the whole service of a join request, from the router to the response
ServeJoin(r) ==
    LET d == Dispatch(r)
        m == IF d.pc = "middleware" THEN AuthMiddlewareResult(d, jwtSecret, now) ELSE d
    IN  IF m.pc = "done" THEN m ELSE JoinRoomResult(m)

\* the token of an Authorization header of the shape "Bearer <token>"
Presented(r) == r.hdr[3].t

PresentsToken(r) == Len(r.hdr) = 3 /\ r.hdr = Bearer(r.hdr[3].t)

\* C3: a token GenerateToken(u) made, presented under the key that signed it
\* and before its expiry, is accepted by AuthMiddleware, and GetUserID then
\* yields u, the id of the account the token was issued to.
C3_RoundTrip ==
    /\ \A tok \in issued :
          (tok.sig.key = jwtSecret /\ now < tok.claims.exp)
          => LET r == AuthMiddlewareResult([Idle EXCEPT !.route = "me", !.hdr = Bearer(tok)],
                                           jwtSecret, now)
             IN  /\ r.auth = "Authenticated"
                 /\ ~GetUserID(r).err
                 /\ GetUserID(r).id = tok.claims.user_id
    /\ \A u \in UserIDs, t2 \in Reads(now) :
          \A t3 \in Reads(t2) :
             LET tok == GenerateToken(u, now, t2, t3, jwtSecret)
             IN  ParseWithClaims(tok, jwtSecret, t3) = "ok" /\ tok.claims.user_id = u
    /\ \A i \in Slots :
          (reqs[i].pc = "done" /\ reqs[i].route = "login" /\ reqs[i].status = 200)
          => /\ reqs[i].token[1] \in issued
             /\ reqs[i].token[1].claims.user_id = GetUserByEmail(reqs[i].email).user.id
    /\ \A i \in Slots :
          (/\ reqs[i].route = "me" /\ reqs[i].pc \in {"handler", "done"}
           /\ PresentsToken(reqs[i]) /\ Presented(reqs[i]) \in issued
           /\ Presented(reqs[i]).sig.key = jwtSecret
           /\ reqs[i].at < Presented(reqs[i]).claims.exp)
          => /\ reqs[i].auth = "Authenticated"
             /\ GetUserID(reqs[i]).id = Presented(reqs[i]).claims.user_id

C3_Witness ==
    \E i \in Slots :
        /\ reqs[i].pc = "done" /\ reqs[i].route = "me" /\ reqs[i].status = 200
        /\ PresentsToken(reqs[i]) /\ Presented(reqs[i]) \in issued
        /\ reqs[i].view.user.id = Presented(reqs[i]).claims.user_id
        /\ reqs[i].at > 0

\* C4: every token carries exp = iat + 24h, and a token presented after its
\* exp is rejected as Expired and never authenticates the request.
C4_ExpiryAfterOneDay ==
    /\ \A tok \in issued : tok.claims.exp = tok.claims.iat + Day
    /\ \A i \in Slots :
          (reqs[i].auth # "Unchecked" /\ PresentsToken(reqs[i])
           /\ Presented(reqs[i]) \in issued /\ reqs[i].at > Presented(reqs[i]).claims.exp)
          => reqs[i].auth = "Rejected"

\* the second half of C4 alone: a token checked at or after its exp never
\* authenticates, and with a good signature the reason is Expired
ExpiredNeverAccepted ==
    \A i \in Slots :
        (reqs[i].auth # "Unchecked" /\ PresentsToken(reqs[i])
         /\ reqs[i].at >= Presented(reqs[i]).claims.exp)
        => /\ reqs[i].auth = "Rejected"
           /\ reqs[i].reason \in {"Expired", "BadSignature", "Malformed", "UnexpectedMethod"}
           /\ (Presented(reqs[i]).sig = Sign("HS256", jwtSecret, Presented(reqs[i]).claims)
                /\ Presented(reqs[i]).alg = "HS256") => reqs[i].reason = "Expired"

\* C5: a token whose header names any algorithm other than HS256, the one
\* GenerateToken signs with, is never accepted.
C5_OnlyHS256 ==
    \A i \in Slots :
        reqs[i].auth = "Authenticated" => Presented(reqs[i]).alg = "HS256"

C9_LoginOutcome ==
    \A i \in Slots :
        (reqs[i].pc = "done" /\ reqs[i].route = "login" /\ IsEmail(reqs[i].email))
        => IF \E u \in users : /\ u.email = reqs[i].email
                                /\ PasswordAtRegistration(u) = reqs[i].password
           THEN /\ reqs[i].status = 200
                /\ reqs[i].token # <<>>
                /\ reqs[i].token[1].claims.user_id = GetUserByEmail(reqs[i].email).user.id
           ELSE /\ reqs[i].status = 401
                /\ reqs[i].error = "Invalid email or password"

Done(i, route) == reqs[i].pc = "done" /\ reqs[i].route = route

\* C1: two concurrent Register requests with the same, previously unregistered
\* email and valid input end in exactly one 201 carrying a token and one 409;
\* no other pair of outcomes is reachable.
C1_ExactlyOneWinner ==
    \A i, j \in Slots :
        (/\ i # j
         /\ Done(i, "register") /\ Done(j, "register")
         /\ reqs[i].peer = j /\ reqs[j].peer = i
         /\ reqs[i].fresh /\ reqs[j].fresh
         /\ BindRegisterRequest(reqs[i]) /\ BindRegisterRequest(reqs[j]))
        => /\ {reqs[i].status, reqs[j].status} = {201, 409}
           /\ \A k \in {i, j} : reqs[k].status = 201 => reqs[k].token # <<>>

\* C2: a Register request with valid input for an email no account holds,
\* served with no other request in flight, creates exactly one account for
\* the email and answers 201 with a token and the account view; never 409 or 500.
C2_RegisterSucceeds ==
    \A i \in Slots :
        (/\ Done(i, "register")
         /\ reqs[i].alone /\ reqs[i].fresh
         /\ BindRegisterRequest(reqs[i]))
        => /\ reqs[i].status = 201
           /\ reqs[i].token # <<>>
           /\ reqs[i].view.kind = "user"
           /\ Cardinality({u \in users : u.email = reqs[i].email}) = 1

ProtectedRoutes == {"me", "createRoom", "getRooms", "getRoom", "getFeedback"}

C7_Terminal ==
    \A i \in Slots :
        LET r == reqs[i]
        IN  /\ r.auth \in {"Unchecked", "Authenticated", "Rejected"}
            /\ (r.route \in ProtectedRoutes /\ r.pc = "middleware") => r.auth = "Unchecked"
            /\ (r.route \in ProtectedRoutes /\ r.pc \in {"handler", "done"})
                  => r.auth \in {"Authenticated", "Rejected"}
            /\ (r.route \in ProtectedRoutes /\ r.ran)
                  => r.auth = "Authenticated" /\ Len(r.ctx) = 1
            /\ r.auth = "Rejected"
                  => ~r.ran /\ r.pc = "done" /\ r.status = 401 /\ r.ctx = <<>>
            /\ r.auth = "Authenticated" => ~GetUserID(r).err

C7_Step ==
    \A i \in Slots :
        /\ (reqs[i].auth # "Unchecked" /\ reqs'[i].pc # "idle")
              => reqs'[i].auth = reqs[i].auth /\ reqs'[i].ctx = reqs[i].ctx
        /\ reqs[i].auth = "Rejected" => reqs'[i] \in {reqs[i], Idle}

\* C7: a request passing through AuthMiddleware goes from Unchecked to exactly
\* one of Authenticated(userId) and Rejected(reason) and stays there for the
\* rest of the request; the handler of a protected route runs only after
\* Authenticated, and after Rejected no handler runs and the answer is 401.
C7_RequestStateMachine == []C7_Terminal /\ [][C7_Step]_vars

C7_Witness ==
    \E i \in Slots :
        /\ reqs[i].route = "getFeedback" /\ reqs[i].pc = "done"
        /\ reqs[i].auth = "Rejected" /\ reqs[i].reason = "BadSignature"
        /\ reqs[i].status = 401 /\ ~reqs[i].ran
        /\ \E room \in rooms : room.id = reqs[i].roomID

\* C8: for every existing room and every candidate secret, JoinRoom answers
\* 200 if and only if the room is not password protected or the candidate is
\* exactly the secret given at room creation; any other candidate for a
\* protected room gets 401.
C8_JoinIffSecret ==
    \A i \in Slots :
        (Done(i, "join") /\ reqs[i].json /\ \E room \in rooms : room.id = reqs[i].roomID)
        => LET room == CHOOSE q \in rooms : q.id = reqs[i].roomID
               secret == (CHOOSE g \in given : g.id = room.id).secret
           IN  IF ~room.is_password_protected \/ reqs[i].password = secret
               THEN reqs[i].status = 200 /\ reqs[i].view = [kind |-> "room", room |-> RoomJSON(room)]
               ELSE reqs[i].status = 401 /\ reqs[i].view = NoView

\* C10: the outcome of JoinRoom depends on the room record and the candidate
\* secret only: the same join request gets the same status and view with no
\* Authorization header, with an invalid token and with a valid token of any
\* account, the room's creator included, and the join path never runs the
\* token verification.
C10_JoinIgnoresIdentity ==
    \A i \in Slots :
        reqs[i].route = "join"
        => /\ reqs[i].auth = "Unchecked" /\ reqs[i].ctx = <<>> /\ reqs[i].pc # "middleware"
           /\ reqs[i].pc = "done"
                => \A h \in RoomHeaders :
                      LET o == ServeJoin([Idle EXCEPT !.route = "join", !.hdr = h,
                                                      !.roomID = reqs[i].roomID,
                                                      !.password = reqs[i].password,
                                                      !.json = reqs[i].json])
                      IN  /\ o.status = reqs[i].status
                          /\ o.error = reqs[i].error
                          /\ o.view = reqs[i].view

\* the creator of a protected room presents a valid token and a wrong secret
C10_Witness ==
    \E i \in Slots, room \in rooms :
        /\ Done(i, "join") /\ reqs[i].roomID = room.id /\ reqs[i].status = 401
        /\ PresentsToken(reqs[i]) /\ Presented(reqs[i]) \in issued
        /\ Presented(reqs[i]).claims.user_id = room.creator_id

\* the records a response body serialises
BodyRecords(r) ==
    CASE r.view.kind = "user" -> {r.view.user}
      [] r.view.kind = "room" -> {r.view.room}
      [] r.view.kind = "rooms" -> r.view.rooms
      [] OTHER -> {}

CarriesHash(rec) ==
    \/ "password_hash" \in DOMAIN rec /\ rec.password_hash # NoHash
    \/ "password" \in DOMAIN rec /\ rec.password # NoHash

\* C11: no response body of Register, Login, GetCurrentUser, CreateRoom,
\* GetRooms, GetRoomByID or JoinRoom, on a success or a failure path, contains
\* the password hash of an account or of a room.
C11_NoHashInResponses ==
    \A i \in Slots :
        reqs[i].route \in {"register", "login", "me", "createRoom", "getRooms",
                           "getRoom", "publicGetRoom", "join"}
        => /\ \A rec \in BodyRecords(reqs[i]) : ~CarriesHash(rec)
           /\ \A j \in 1..Len(reqs[i].token) :
                 DOMAIN reqs[i].token[j].claims = {"user_id", "exp", "iat", "nbf", "iss"}
           /\ reqs[i].status >= 400 => reqs[i].view = NoView

\* a login answered with the account view, and the view of a protected room
C11_Witness ==
    \E i \in Slots :
        /\ Done(i, "login") /\ reqs[i].status = 200
        /\ \E u \in users : u.id = reqs[i].view.user.id /\ u.password_hash # NoHash
        /\ \E room \in rooms : room.password # NoHash

\* C12: the feedback listing GET /api/rooms/:id/feedback is for room creators
\* only: a request authenticated as user u receives the feedback of room r
\* only if u created r.
C12_FeedbackOnlyForCreator ==
    \A i \in Slots :
        (Done(i, "getFeedback") /\ reqs[i].status = 200 /\ reqs[i].view.items # {})
        => \E room \in rooms : /\ room.id = reqs[i].roomID
                                /\ room.creator_id = GetUserID(reqs[i]).id

\* exactly two space-separated parts, the first of them "Bearer"
WellShaped(h) ==
    /\ Len(h) >= 2
    /\ h[1] = Word("Bearer")
    /\ h[2] = SP
    /\ \A j \in 3..Len(h) : h[j] # SP

\* C13: AuthMiddleware classifies the Authorization header before any token
\* verification: an absent or empty header is Rejected(MissingCredential), a
\* present header that is not exactly two space-separated parts with the first
\* equal to "Bearer" is Rejected(MalformedCredential), and in neither case is
\* the token parser or the signing key consulted.
C13_HeaderClassifiedFirst ==
    \A i \in Slots :
        LET r == reqs[i]
            q == Dispatch([Idle EXCEPT !.route = r.route, !.hdr = r.hdr])
        IN  (r.route \in ProtectedRoutes /\ r.pc \notin {"idle", "middleware"})
            => /\ r.hdr = <<>>
                    => r.auth = "Rejected" /\ r.reason = "MissingCredential" /\ r.status = 401
               /\ (r.hdr # <<>> /\ ~WellShaped(r.hdr))
                    => r.auth = "Rejected" /\ r.reason = "MalformedCredential" /\ r.status = 401
               /\ (r.hdr = <<>> \/ ~WellShaped(r.hdr))
                    => \A k \in KnownKeys \cup {"xx"}, t \in TimePoints :
                          LET o == AuthMiddlewareResult(q, k, t)
                          IN  /\ o.auth = r.auth /\ o.reason = r.reason /\ o.ctx = r.ctx
                              /\ o.status = r.status /\ o.error = r.error

\* a token that would be accepted arrives behind a doubled space
C13_Witness ==
    \E i \in Slots, t \in issued :
        /\ Done(i, "me")
        /\ reqs[i].hdr = <<Word("Bearer"), SP, SP, Jwt(t)>>
        /\ ParseWithClaims(t, jwtSecret, reqs[i].at) = "ok"
        /\ reqs[i].reason = "MalformedCredential"

C14_FlagMatchesHash ==
    \A room \in rooms :
        /\ room.is_password_protected <=> room.password # NoHash
        /\ room.password # NoHash => room.password.digest # <<>>

C14_RowsKept ==
    \A room \in rooms :
        /\ room \in rooms'
        /\ \A q \in rooms' : q.id = room.id => q = room

\* C14: in every reachable state of the room store each room's
\* is_password_protected flag is true exactly when a non-empty password hash
\* is stored for it, and neither the flag nor the hash of an existing room
\* changes after creation.
C14_FlagAndHashAgree == []C14_FlagMatchesHash /\ [][C14_RowsKept]_vars

\* a protected room that has been joined and has received feedback
C14_Witness ==
    \E room \in rooms, i \in Slots :
        /\ room.is_password_protected
        /\ Done(i, "join") /\ reqs[i].roomID = room.id /\ reqs[i].status = 200
        /\ \E f \in feedback : f.room_id = room.id

C15_Outcome ==
    /\ \A f \in feedback : \E room \in rooms : room.id = f.room_id
    /\ \A i \in Slots :
          LET r == reqs[i]
          IN  r.route = "createFeedback"
              => /\ r.auth = "Unchecked" /\ r.pc # "middleware"
                 /\ (r.pc = "done" /\ r.content # "")
                      => /\ IF \E room \in rooms : room.id = r.roomID
                            THEN /\ r.status = 201
                                 /\ Cardinality(r.view.items) = 1
                                 /\ r.view.items \subseteq feedback
                                 /\ \A f \in r.view.items :
                                       f.room_id = r.roomID /\ f.content = r.content
                            ELSE r.status = 404 /\ r.view = NoView
                         /\ \A h \in RoomHeaders, p \in Candidates :
                               LET o == CreateFeedbackResult(
                                           Dispatch([Idle EXCEPT !.route = "createFeedback",
                                                                 !.hdr = h, !.password = p,
                                                                 !.roomID = r.roomID,
                                                                 !.content = r.content]))
                               IN  o.status = r.status /\ o.error = r.error

C15_Stores ==
    /\ feedback \subseteq feedback'
    /\ \A i \in Slots :
          (reqs[i].route = "createFeedback" /\ reqs[i].pc = "handler" /\ reqs'[i].pc = "done")
          => IF reqs'[i].status = 201
             THEN Cardinality(feedback') = Cardinality(feedback) + 1
             ELSE feedback' = feedback

\* C15: the outcome of CreateFeedback depends on the existence of the room and
\* the presence of content only: for an existing room, protected or not, a
\* request with content stores one feedback row for that room and gets 201
\* with no secret, join or token; for an unknown room it gets 404 and nothing
\* is stored; every stored feedback row references an existing room.
C15_FeedbackNeedsOnlyRoom == []C15_Outcome /\ [][C15_Stores]_vars

\* feedback accepted for a protected room from a caller without credentials
C15_Witness ==
    \E i \in Slots, room \in rooms :
        /\ Done(i, "createFeedback") /\ reqs[i].roomID = room.id
        /\ room.is_password_protected
        /\ reqs[i].hdr = <<>> /\ reqs[i].password = Empty
        /\ reqs[i].status = 201

====
